---------------------------- MODULE Spec2Model ----------------------------
(***************************************************************************)
(* Model of two pieces of inspektor-gadget:                                *)
(*   - the tcptop gadget's Trace (pkg/gadget-collection/gadgets/top/tcp):  *)
(*     Start / Stop, parameter validation and the event callback;          *)
(*   - the UidGidResolver operator (pkg/operators/uidgidresolver):         *)
(*     PreGadgetRun / PostGadgetRun on the shared cache and enrich.        *)
(* Strings are sequences of atoms (one atom per character, a column name   *)
(* being abbreviated to one atom), so that splitting, sign stripping and   *)
(* digit parsing are computed and not assumed.                             *)
(***************************************************************************)
EXTENDS Integers, Sequences, FiniteSets, TLC

(***************************************************************************)
(* Bounds of the model.                                                    *)
(***************************************************************************)
MaxTracers == 2
MaxTicks == 2
MaxInstances == 2
MaxStops == 2
MaxCallers == 2

(***************************************************************************)
(* Program constants.                                                      *)
(***************************************************************************)
MaxRowsParam == "max_rows"
IntervalParam == "interval"
SortByParam == "sort_by"
PidParam == "pid"
FamilyParam == "family"

\* top.MaxRowsDefault, top.IntervalDefault, types.SortByDefault: read by
\* Start, their values are set in packages outside the two files modelled.
MaxRowsDefault == 20
IntervalDefault == 1
SortByDefault == << <<"-", "sent">>, <<"-", "received">> >>

\* strconv.ParseInt(val, 10, 32): the largest int32.
MaxInt32 == 2147483647

TraceStateStarted == "Started"
TraceStateStopped == "Stopped"

NoError == <<>>

(***************************************************************************)
(* strconv: decimal parsing, computed digit by digit.                      *)
(***************************************************************************)
DigitChars == <<"0", "1", "2", "3", "4", "5", "6", "7", "8", "9">>

IsDigit(c) == \E i \in 1..10 : DigitChars[i] = c

DigitVal(c) == (CHOOSE i \in 1..10 : DigitChars[i] = c) - 1

\* The magnitude of a digit string, or -1 when it is empty, has a non-digit
\* or exceeds limit (the cutoff test is done before multiplying).
RECURSIVE ParseDigits(_, _, _)
ParseDigits(s, acc, limit) ==
    IF s = <<>> THEN acc
    ELSE IF ~IsDigit(Head(s)) THEN -1
    ELSE IF acc > (limit - DigitVal(Head(s))) \div 10 THEN -1
    ELSE ParseDigits(Tail(s), acc * 10 + DigitVal(Head(s)), limit)

\* strconv.ParseInt(s, 10, bits) with the magnitude limit of the width (the
\* most negative value of the width is not among the model's inputs).
ParseInt(s, limit) ==
    LET neg == s /= <<>> /\ Head(s) = "-"
        signed == s /= <<>> /\ Head(s) \in {"-", "+"}
        body == IF signed THEN Tail(s) ELSE s
        mag == IF body = <<>> THEN -1 ELSE ParseDigits(body, 0, limit)
    IN  IF mag < 0 THEN [ok |-> FALSE, val |-> 0]
        ELSE [ok |-> TRUE, val |-> IF neg THEN 0 - mag ELSE mag]

\* strconv.Atoi(s); the model's inputs stay below the int32 limit.
Atoi(s) == ParseInt(s, MaxInt32)

(***************************************************************************)
(* strings.Split and strings.Join on one separator atom.                   *)
(***************************************************************************)
RECURSIVE SplitAcc(_, _, _)
SplitAcc(s, sep, cur) ==
    IF s = <<>> THEN <<cur>>
    ELSE IF Head(s) = sep THEN <<cur>> \o SplitAcc(Tail(s), sep, <<>>)
    ELSE SplitAcc(Tail(s), sep, Append(cur, Head(s)))

Split(s, sep) == SplitAcc(s, sep, <<>>)

RECURSIVE Join(_, _)
Join(parts, sep) ==
    IF parts = <<>> THEN <<>>
    ELSE IF Len(parts) = 1 THEN parts[1]
    ELSE parts[1] \o <<sep>> \o Join(Tail(parts), sep)

(***************************************************************************)
(* sort.FilterSortableColumns and types.ParseFilterByFamily.               *)
(***************************************************************************)
SortableColumns == {"pid", "sent", "received"}

\* A token names a sortable column, with an optional "-" for descending.
IsSortableToken(tok) ==
    LET raw == IF tok /= <<>> /\ Head(tok) = "-" THEN Tail(tok) ELSE tok
    IN  Len(raw) = 1 /\ raw[1] \in SortableColumns

RECURSIVE SelectTokens(_, _)
SelectTokens(toks, keepValid) ==
    IF toks = <<>> THEN <<>>
    ELSE (IF IsSortableToken(Head(toks)) = keepValid THEN <<Head(toks)>> ELSE <<>>)
         \o SelectTokens(Tail(toks), keepValid)

FilterSortableColumns(toks) ==
    [valid |-> SelectTokens(toks, TRUE), invalid |-> SelectTokens(toks, FALSE)]

AF_INET == 2
AF_INET6 == 10

ParseFilterByFamily(s) ==
    IF s = <<"4">> THEN [ok |-> TRUE, val |-> AF_INET]
    ELSE IF s = <<"6">> THEN [ok |-> TRUE, val |-> AF_INET6]
    ELSE [ok |-> FALSE, val |-> 0 - 1]

(***************************************************************************)
(* The parameters a Start may be given: a map from a subset of the five    *)
(* parameter names to strings.                                             *)
(***************************************************************************)
MaxRowsValues == { <<"x">>, <<"0">>, <<"-", "1">>, <<"2">> }
IntervalValues == { <<"x">>, <<"5">> }
SortByValues == { <<"-", "sent", ",", "pid">>,
                  <<"sent", ",", "bogus", ",", "-", "nope">> }
PidValues == { <<"x">>, <<"4", "2">>,
               <<"3", "0", "0", "0", "0", "0", "0", "0", "0", "0">> }
FamilyValues == { <<"4">>, <<"6">>, <<"5">> }

Opt(S) == { <<>> } \cup { <<v>> : v \in S }

MkParams(a, b, c, d, e) ==
    LET o == [r \in {MaxRowsParam, IntervalParam, SortByParam, PidParam, FamilyParam} |->
                 CASE r = MaxRowsParam -> a
                   [] r = IntervalParam -> b
                   [] r = SortByParam -> c
                   [] r = PidParam -> d
                   [] OTHER -> e]
    IN  [k \in {r \in DOMAIN o : o[r] /= <<>>} |-> o[k][1]]

AllParams ==
    { MkParams(a, b, c, d, e) :
        a \in Opt(MaxRowsValues), b \in Opt(IntervalValues), c \in Opt(SortByValues),
        d \in Opt(PidValues), e \in Opt(FamilyValues) }

\* The maps the model calls Start with: no parameter, every single parameter
\* with every value, and three maps with several parameters.
ParamSpace ==
    { p \in AllParams : Cardinality(DOMAIN p) <= 1 }
    \cup { MkParams(<< <<"x">> >>, <<>>,
                    << <<"sent", ",", "bogus", ",", "-", "nope">> >>, <<>>, <<>>),
           MkParams(<< <<"2">> >>, << <<"5">> >>, << <<"-", "sent", ",", "pid">> >>,
                    << <<"4", "2">> >>, << <<"6">> >>),
           MkParams(<<>>, <<>>, <<>>, << <<"x">> >>, << <<"5">> >>) }

\* The maps the model calls Start with on a Trace that is already started,
\* where Start does not read them: no parameter, and invalid ones.
RestartParams ==
    { MkParams(<<>>, <<>>, <<>>, <<>>, <<>>),
      MkParams(<< <<"x">> >>, <<>>,
               << <<"sent", ",", "bogus", ",", "-", "nope">> >>, <<>>, <<>>) }

(***************************************************************************)
(* Trace.Start: parameter parsing.  Each block yields the error message it *)
(* reports (NoError when it lets Start go on) and the value it leaves.     *)
(***************************************************************************)
Quote(s) == <<"\"">> \o s \o <<"\"">>

NotValidFor(val, param) == Quote(val) \o <<" is not valid for ">> \o Quote(<<param>>)

AreNotValidFor(cols, param) ==
    Quote(Join(cols, ",")) \o <<" are not valid for ">> \o Quote(<<param>>)

ParseMaxRows(params) ==
    IF MaxRowsParam \in DOMAIN params
    THEN LET r == Atoi(params[MaxRowsParam])
         IN  IF r.ok THEN [err |-> NoError, val |-> r.val]
             ELSE [err |-> NotValidFor(params[MaxRowsParam], MaxRowsParam), val |-> r.val]
    ELSE [err |-> NoError, val |-> MaxRowsDefault]

ParseInterval(params) ==
    IF IntervalParam \in DOMAIN params
    THEN LET r == Atoi(params[IntervalParam])
         IN  IF r.ok THEN [err |-> NoError, val |-> r.val]
             ELSE [err |-> NotValidFor(params[IntervalParam], IntervalParam), val |-> r.val]
    ELSE [err |-> NoError, val |-> IntervalDefault]

\* ParseSortBy without the test of the invalid columns.
ParseSortBy_Unchecked(params) ==
    IF SortByParam \in DOMAIN params
    THEN [err |-> NoError, val |-> Split(params[SortByParam], ",")]
    ELSE [err |-> NoError, val |-> SortByDefault]

ParseSortBy(params) ==
    IF SortByParam \in DOMAIN params
    THEN LET sortByColumns == Split(params[SortByParam], ",")
             invalidCols == FilterSortableColumns(sortByColumns).invalid
         IN  IF Len(invalidCols) > 0
             THEN [err |-> AreNotValidFor(invalidCols, SortByParam), val |-> SortByDefault]
             ELSE [err |-> NoError, val |-> sortByColumns]
    ELSE [err |-> NoError, val |-> SortByDefault]

\* ParsePid without the test of ParseInt's error.
ParsePid_Unchecked(params) ==
    IF PidParam \in DOMAIN params
    THEN [err |-> NoError, val |-> ParseInt(params[PidParam], MaxInt32).val]
    ELSE [err |-> NoError, val |-> 0]

\* ParsePid checking the value and leaving targetPid at its default.
ParsePid_Ignored(params) ==
    IF PidParam \in DOMAIN params
    THEN LET r == ParseInt(params[PidParam], MaxInt32)
         IN  IF r.ok THEN [err |-> NoError, val |-> 0]
             ELSE [err |-> NotValidFor(params[PidParam], PidParam), val |-> 0]
    ELSE [err |-> NoError, val |-> 0]

ParsePid(params) ==
    IF PidParam \in DOMAIN params
    THEN LET r == ParseInt(params[PidParam], MaxInt32)
         IN  IF r.ok THEN [err |-> NoError, val |-> r.val]
             ELSE [err |-> NotValidFor(params[PidParam], PidParam), val |-> 0]
    ELSE [err |-> NoError, val |-> 0]

ParseFamily(params) ==
    IF FamilyParam \in DOMAIN params
    THEN LET r == ParseFilterByFamily(params[FamilyParam])
         IN  IF r.ok THEN [err |-> NoError, val |-> r.val]
             ELSE [err |-> NotValidFor(params[FamilyParam], FamilyParam), val |-> r.val]
    ELSE [err |-> NoError, val |-> 0 - 1]

\* The blocks in the order Start runs them; the first error ends Start.
ParseParams(params) ==
    LET mr == ParseMaxRows(params)
        iv == ParseInterval(params)
        sb == ParseSortBy(params)
        pd == ParsePid(params)
        fm == ParseFamily(params)
        err == IF mr.err /= NoError THEN mr.err
               ELSE IF iv.err /= NoError THEN iv.err
               ELSE IF sb.err /= NoError THEN sb.err
               ELSE IF pd.err /= NoError THEN pd.err
               ELSE fm.err
    IN  [err |-> err,
         config |-> [MaxRows |-> mr.val, Interval |-> iv.val, SortBy |-> sb.val,
                     TargetPid |-> pd.val, TargetFamily |-> fm.val]]

\* What a Start on a Trace that is not started does: the error it reports,
\* or the config it creates the tracer with.  mountErr and tracerErr are the
\* outcomes of helpers.TracerMountNsMap and tcptoptracer.NewTracer.
StartOutcome(params, mountErr, tracerErr) ==
    LET p == ParseParams(params)
    IN  IF p.err /= NoError THEN [created |-> FALSE, err |-> p.err]
        ELSE IF mountErr
        THEN [created |-> FALSE, err |-> <<"failed to find tracer's mount ns map: ", "err">>]
        ELSE IF tracerErr
        THEN [created |-> FALSE, err |-> <<"failed to create tracer: ", "err">>]
        ELSE [created |-> TRUE, err |-> NoError, config |-> p.config]

(***************************************************************************)
(* State.                                                                  *)
(*   started, tracer   the fields of the Trace (tracer 0 is nil)           *)
(*   status            trace.Status of the Trace resource                  *)
(*   config            the Config the current tracer was created with      *)
(*   tracers           every tracer NewTracer could create: its run loop   *)
(*   opPc              "stopping" while Trace.Stop waits in tracer.Stop,   *)
(*                     "deleting" while deleteTrace does                   *)
(*   lastOp            the last operation called on the Trace              *)
(*   lastPublished     the last (name, payload) given to PublishEvent      *)
(***************************************************************************)
VARIABLES started, tracer, status, config, tracers, opPc, lastOp, lastPublished

\* starts: the Start calls that run concurrently, each with its position in
\* Start, its parameters and the tracer it holds in its local variable.
VARIABLE starts

traceVars ==
    <<started, tracer, status, config, tracers, opPc, lastOp, lastPublished, starts>>

(***************************************************************************)
(*   cache             the shared UserGroupCache: use count, whether the   *)
(*                     tables are populated, the two tables, and how many  *)
(*                     times they were populated                           *)
(*   inst              the UidGidResolverInstances: the capabilities of    *)
(*                     the gadget's event prototype, the result of         *)
(*                     PreGadgetRun, the number of PostGadgetRun calls     *)
(*   startAfterStop    a PreGadgetRun ran after some PostGadgetRun         *)
(*   lastEnrich        the last EnrichEvent: the event before and after,   *)
(*                     and whether it returned or panicked                 *)
(***************************************************************************)
VARIABLES cache, inst, startAfterStop, lastEnrich

cacheVars == <<cache, inst, startAfterStop, lastEnrich>>

TracerIds == 1..MaxTracers

NoConfig == [none |-> TRUE]

NoEvent == [none |-> TRUE]

(***************************************************************************)
(* The tracer's snapshot of its live table: filter, sort by the sort       *)
(* specification with the table's order breaking ties, truncate.           *)
(***************************************************************************)
Row(pid, family, sent, received) ==
    [pid |-> pid, family |-> family, sent |-> sent, received |-> received]

\* The live tables a tick may find: rows of two processes, the rows with
\* sent 5, 3, 9, 1, rows that tie on sent, and no row.
TwoPids == << Row(42, AF_INET6, 9, 1), Row(7, AF_INET, 5, 2) >>

FourRows == << Row(42, AF_INET, 5, 0), Row(7, AF_INET, 3, 0),
               Row(42, AF_INET6, 9, 0), Row(7, AF_INET6, 1, 0) >>

TiedRows == << Row(7, AF_INET, 5, 1), Row(42, AF_INET, 5, 3), Row(42, AF_INET6, 5, 3) >>

TableSpace == { <<>>, TwoPids, FourRows, TiedRows }

\* The live tables the ticks of the Trace's specification find.
OneRow == << Row(42, AF_INET6, 9, 1) >>

LiveTables == { <<>>, OneRow }

SortColumn(tok) == IF Head(tok) = "-" THEN Tail(tok)[1] ELSE tok[1]

SortDescending(tok) == Head(tok) = "-"

\* Row a goes before row b under the sort specification.
RECURSIVE Less(_, _, _)
Less(a, b, sortBy) ==
    IF sortBy = <<>> THEN FALSE
    ELSE LET col == SortColumn(Head(sortBy))
         IN  IF a[col] = b[col] THEN Less(a, b, Tail(sortBy))
             ELSE IF SortDescending(Head(sortBy)) THEN a[col] > b[col]
             ELSE a[col] < b[col]

\* r put into sorted rows, after the rows it does not go before.
RECURSIVE InsertRow(_, _, _)
InsertRow(rows, r, sortBy) ==
    IF rows = <<>> THEN <<r>>
    ELSE IF Less(r, Head(rows), sortBy) THEN <<r>> \o rows
    ELSE <<Head(rows)>> \o InsertRow(Tail(rows), r, sortBy)

RECURSIVE SortStats(_, _)
SortStats(rows, sortBy) ==
    IF rows = <<>> THEN <<>>
    ELSE InsertRow(SortStats(SubSeq(rows, 1, Len(rows) - 1), sortBy),
                   rows[Len(rows)], sortBy)

PassesFilter(r, cfg) ==
    /\ cfg.TargetPid = 0 \/ r.pid = cfg.TargetPid
    /\ cfg.TargetFamily = 0 - 1 \/ r.family = cfg.TargetFamily

RECURSIVE FilterStats(_, _)
FilterStats(rows, cfg) ==
    IF rows = <<>> THEN <<>>
    ELSE (IF PassesFilter(Head(rows), cfg) THEN <<Head(rows)>> ELSE <<>>)
         \o FilterStats(Tail(rows), cfg)

\* The first n rows; none for an n that is not positive, which the spec's
\* sampler is never configured with.
Truncate(rows, n) ==
    IF n <= 0 THEN <<>>
    ELSE IF Len(rows) > n THEN SubSeq(rows, 1, n)
    ELSE rows

NextStats(cfg, table) == Truncate(SortStats(FilterStats(table, cfg), cfg.SortBy), cfg.MaxRows)

TraceName == "trace_ns_name"

\* json.Marshal of an event.
Marshal(e) == <<"json", e>>

\* A tracer: state is "absent" until NewTracer creates it, then "running"
\* until its run loop exits; done is the loop's done channel being closed,
\* stops the number of calls of its Stop; pc is "callback" during a tick.
\* config is the Config a running tracer holds, table the live table the
\* tick in progress drained.
NewTracerState ==
    [state |-> "absent", done |-> FALSE, stops |-> 0, pc |-> "idle", ev |-> NoEvent,
     ticks |-> 0, published |-> 0, logged |-> 0, lastTick |-> "none",
     config |-> NoConfig, table |-> <<>>]

\* The record of an operation on the Trace: its parameters, and what the
\* Trace was when it was called.
OpRecord(op, params) ==
    [op |-> op, params |-> params, wasStarted |-> started,
     tracersBefore |-> Cardinality({ id \in 1..MaxTracers : tracers[id].state /= "absent" }),
     stateBefore |-> status.State,
     inFlight |-> (tracer /= 0 /\ tracers[tracer].pc = "callback")]

Callers == 1..MaxCallers

NoCall == [pc |-> "idle", params |-> <<>>, tracer |-> 0]

TraceInit ==
    /\ started = FALSE
    /\ tracer = 0
    /\ status = [State |-> "", OperationError |-> NoError]
    /\ config = NoConfig
    /\ tracers = [id \in TracerIds |-> NewTracerState]
    /\ opPc = "none"
    /\ lastOp = [op |-> "none", params |-> <<>>, wasStarted |-> FALSE,
                 tracersBefore |-> 0, stateBefore |-> "", inFlight |-> FALSE]
    /\ lastPublished = <<>>
    /\ starts = [c \in Callers |-> NoCall]

Created == { id \in TracerIds : tracers[id].state /= "absent" }

NextTracerId == Cardinality(Created) + 1

TotalTicks == LET RECURSIVE Sum(_)
                  Sum(n) == IF n = 0 THEN 0 ELSE tracers[n].ticks + Sum(n - 1)
              IN  Sum(MaxTracers)

(***************************************************************************)
(* Trace.Start.                                                            *)
(***************************************************************************)
\* Start without the test of started.
Start_Again(params, mountErr, tracerErr) ==
    /\ opPc = "none"
    /\ lastOp' = OpRecord("Start", params)
    /\ LET out == StartOutcome(params, mountErr, tracerErr)
       IN  IF ~out.created
           THEN /\ status' = [status EXCEPT !.OperationError = out.err]
                /\ UNCHANGED <<started, tracer, config, tracers>>
           ELSE /\ NextTracerId <= MaxTracers
                /\ tracers' = [tracers EXCEPT ![NextTracerId].state = "running",
                                              ![NextTracerId].config = out.config]
                /\ config' = out.config
                /\ tracer' = NextTracerId
                /\ started' = TRUE
                /\ status' = [status EXCEPT !.State = TraceStateStarted]
    /\ UNCHANGED <<opPc, lastPublished>>
    /\ UNCHANGED <<starts, cacheVars>>

Start(params, mountErr, tracerErr) ==
    /\ opPc = "none"
    /\ lastOp' = OpRecord("Start", params)
    /\ IF started
       THEN /\ status' = [status EXCEPT !.State = TraceStateStarted]
            /\ UNCHANGED <<started, tracer, config, tracers>>
       ELSE LET out == StartOutcome(params, mountErr, tracerErr)
            IN  IF ~out.created
                THEN /\ status' = [status EXCEPT !.OperationError = out.err]
                     /\ UNCHANGED <<started, tracer, config, tracers>>
                ELSE /\ NextTracerId <= MaxTracers
                     /\ tracers' = [tracers EXCEPT ![NextTracerId].state = "running",
                                                   ![NextTracerId].config = out.config]
                     /\ config' = out.config
                     /\ tracer' = NextTracerId
                     /\ started' = TRUE
                     /\ status' = [status EXCEPT !.State = TraceStateStarted]
    /\ UNCHANGED <<opPc, lastPublished>>
    /\ UNCHANGED <<starts, cacheVars>>

(***************************************************************************)
(* Trace.Start called concurrently, which neither the Trace nor            *)
(* Operations excludes: the steps of one call, between which the steps of  *)
(* another may run.  StartCheck is the test of started, StartCreate the    *)
(* parsing and the two calls, StartAssign the assignments.                 *)
(***************************************************************************)
StartCheck(c, params) ==
    /\ starts[c].pc = "idle"
    /\ lastOp' = OpRecord("Start", params)
    /\ IF started
       THEN /\ status' = [status EXCEPT !.State = TraceStateStarted]
            /\ starts' = [starts EXCEPT ![c].pc = "done"]
       ELSE /\ starts' = [starts EXCEPT ![c].pc = "checked", ![c].params = params]
            /\ UNCHANGED status
    /\ UNCHANGED <<started, tracer, config, tracers, opPc, lastPublished>>
    /\ UNCHANGED cacheVars

StartCreate(c, mountErr, tracerErr) ==
    /\ starts[c].pc = "checked"
    /\ LET out == StartOutcome(starts[c].params, mountErr, tracerErr)
       IN  IF ~out.created
           THEN /\ status' = [status EXCEPT !.OperationError = out.err]
                /\ starts' = [starts EXCEPT ![c].pc = "done"]
                /\ UNCHANGED tracers
           ELSE /\ NextTracerId <= MaxTracers
                /\ tracers' = [tracers EXCEPT ![NextTracerId].state = "running",
                                              ![NextTracerId].config = out.config]
                /\ starts' = [starts EXCEPT ![c].pc = "created",
                                            ![c].tracer = NextTracerId]
                /\ UNCHANGED status
    /\ UNCHANGED <<started, tracer, config, opPc, lastOp, lastPublished>>
    /\ UNCHANGED cacheVars

StartAssign(c) ==
    /\ starts[c].pc = "created"
    /\ tracer' = starts[c].tracer
    /\ config' = tracers[starts[c].tracer].config
    /\ started' = TRUE
    /\ status' = [status EXCEPT !.State = TraceStateStarted]
    /\ starts' = [starts EXCEPT ![c].pc = "done"]
    /\ UNCHANGED <<tracers, opPc, lastOp, lastPublished>>
    /\ UNCHANGED cacheVars

(***************************************************************************)
(* Trace.Stop.  It waits in tracer.Stop(): StopCall is Stop up to that     *)
(* call, StopReturn the rest of it.  tracer.Stop() closes the run loop's   *)
(* done channel and returns once the loop has exited.                      *)
(***************************************************************************)
TracerStop(ts, id) == [ts EXCEPT ![id].done = TRUE, ![id].stops = @ + 1]

TracerStopReturned(id) == tracers[id].state = "stopped"

\* Stop reporting a Trace that is not started as stopped, without an error.
StopCall_Silent ==
    /\ opPc = "none"
    /\ lastOp' = OpRecord("Stop", <<>>)
    /\ IF ~started
       THEN /\ status' = [status EXCEPT !.State = TraceStateStopped]
            /\ UNCHANGED <<tracers, opPc>>
       ELSE /\ tracers' = TracerStop(tracers, tracer)
            /\ opPc' = "stopping"
            /\ UNCHANGED status
    /\ UNCHANGED <<started, tracer, config, lastPublished>>
    /\ UNCHANGED <<starts, cacheVars>>

\* Stop dropping the tracer without calling its Stop.
StopCall_Forget ==
    /\ opPc = "none"
    /\ lastOp' = OpRecord("Stop", <<>>)
    /\ IF ~started
       THEN /\ status' = [status EXCEPT !.OperationError = <<"Not started">>]
            /\ UNCHANGED <<started, tracer, config>>
       ELSE /\ tracer' = 0
            /\ started' = FALSE
            /\ config' = NoConfig
            /\ status' = [status EXCEPT !.State = TraceStateStopped]
    /\ UNCHANGED <<tracers, opPc, lastPublished>>
    /\ UNCHANGED <<starts, cacheVars>>

StopCall ==
    /\ opPc = "none"
    /\ lastOp' = OpRecord("Stop", <<>>)
    /\ IF ~started
       THEN /\ status' = [status EXCEPT !.OperationError = <<"Not started">>]
            /\ UNCHANGED <<tracers, opPc>>
       ELSE /\ tracers' = TracerStop(tracers, tracer)
            /\ opPc' = "stopping"
            /\ UNCHANGED status
    /\ UNCHANGED <<started, tracer, config, lastPublished>>
    /\ UNCHANGED <<starts, cacheVars>>

\* The rest of Stop without the reset of the tracer reference.
StopReturn_KeepTracer ==
    /\ opPc = "stopping"
    /\ TracerStopReturned(tracer)
    /\ started' = FALSE
    /\ config' = NoConfig
    /\ status' = [status EXCEPT !.State = TraceStateStopped]
    /\ opPc' = "none"
    /\ UNCHANGED <<tracer, tracers, lastOp, lastPublished>>
    /\ UNCHANGED <<starts, cacheVars>>

StopReturn ==
    /\ opPc = "stopping"
    /\ TracerStopReturned(tracer)
    /\ tracer' = 0
    /\ started' = FALSE
    /\ config' = NoConfig
    /\ status' = [status EXCEPT !.State = TraceStateStopped]
    /\ opPc' = "none"
    /\ UNCHANGED <<tracers, lastOp, lastPublished>>
    /\ UNCHANGED <<starts, cacheVars>>

(***************************************************************************)
(* deleteTrace, the factory's hook for a Trace being deleted: it stops the *)
(* tracer the Trace references and changes no field of the Trace.          *)
(* DeleteTraceCall is deleteTrace up to tracer.Stop(), DeleteTraceReturn   *)
(* its return.                                                             *)
(***************************************************************************)
DeleteTraceCall ==
    /\ opPc = "none"
    /\ lastOp' = OpRecord("deleteTrace", <<>>)
    /\ IF tracer /= 0
       THEN /\ tracers' = TracerStop(tracers, tracer)
            /\ opPc' = "deleting"
       ELSE UNCHANGED <<tracers, opPc>>
    /\ UNCHANGED <<started, tracer, status, config, lastPublished>>
    /\ UNCHANGED <<starts, cacheVars>>

DeleteTraceReturn ==
    /\ opPc = "deleting"
    /\ TracerStopReturned(tracer)
    /\ opPc' = "none"
    /\ UNCHANGED <<started, tracer, status, config, tracers, lastOp, lastPublished>>
    /\ UNCHANGED <<starts, cacheVars>>

(***************************************************************************)
(* The tracer's run loop: a tick takes a snapshot and calls the callback.  *)
(***************************************************************************)
TimerFire(id, table) ==
    /\ tracers[id].state = "running"
    /\ ~tracers[id].done
    /\ tracers[id].pc = "idle"
    /\ TotalTicks < MaxTicks
    /\ tracers' = [tracers EXCEPT ![id].pc = "callback",
                                  ![id].table = table,
                                  ![id].ev = [Stats |-> NextStats(tracers[id].config, table)],
                                  ![id].ticks = @ + 1]
    /\ UNCHANGED <<started, tracer, status, config, opPc, lastOp, lastPublished>>
    /\ UNCHANGED <<starts, cacheVars>>

\* The loop exits once done is closed and no tick is running.
RunLoopExit(id) ==
    /\ tracers[id].state = "running"
    /\ tracers[id].done
    /\ tracers[id].pc = "idle"
    /\ tracers' = [tracers EXCEPT ![id].state = "stopped", ![id].config = NoConfig]
    /\ UNCHANGED <<started, tracer, status, config, opPc, lastOp, lastPublished>>
    /\ UNCHANGED <<starts, cacheVars>>

\* eventCallback without the return after the failed Marshal.
EventCallback_PublishOnError(id, marshalErr) ==
    /\ tracers[id].pc = "callback"
    /\ tracers' = [tracers EXCEPT ![id].pc = "idle", ![id].ev = NoEvent, ![id].table = <<>>,
                                  ![id].logged = IF marshalErr THEN @ + 1 ELSE @,
                                  ![id].published = @ + 1,
                                  ![id].lastTick = "published"]
    /\ lastPublished' = <<TraceName, IF marshalErr THEN <<>> ELSE Marshal(tracers[id].ev)>>
    /\ UNCHANGED <<started, tracer, status, config, opPc, lastOp>>
    /\ UNCHANGED <<starts, cacheVars>>

\* eventCallback: marshalErr is the outcome of json.Marshal.
EventCallback(id, marshalErr) ==
    /\ tracers[id].pc = "callback"
    /\ IF marshalErr
       THEN /\ tracers' = [tracers EXCEPT ![id].pc = "idle", ![id].ev = NoEvent, ![id].table = <<>>,
                                          ![id].logged = @ + 1,
                                          ![id].lastTick = "logged"]
            /\ UNCHANGED lastPublished
       ELSE /\ tracers' = [tracers EXCEPT ![id].pc = "idle", ![id].ev = NoEvent, ![id].table = <<>>,
                                          ![id].published = @ + 1,
                                          ![id].lastTick = "published"]
            /\ lastPublished' = <<TraceName, Marshal(tracers[id].ev)>>
    /\ UNCHANGED <<started, tracer, status, config, opPc, lastOp>>
    /\ UNCHANGED <<starts, cacheVars>>

(***************************************************************************)
(* The shared UserGroupCache.  Start and Stop run under the cache's lock,  *)
(* so each is one step.                                                    *)
(***************************************************************************)
InstanceIds == 1..MaxInstances

\* The ids events carry, and the host's /etc/passwd and /etc/group.
Ids == {0, 7, 1000}

Passwd == [id \in {0, 1000} |-> IF id = 0 THEN <<"root">> ELSE <<"alice">>]

Group == [id \in {0, 7} |-> IF id = 0 THEN <<"root">> ELSE <<"lp">>]

EmptyTable == [id \in {} |-> <<>>]

\* The decimal string of a uint32.
RECURSIVE FormatUint(_)
FormatUint(n) ==
    IF n < 10 THEN <<DigitChars[n + 1]>>
    ELSE FormatUint(n \div 10) \o <<DigitChars[(n % 10) + 1]>>

Lookup(table, id) == IF id \in DOMAIN table THEN table[id] ELSE FormatUint(id)

GetUsername(c, uid) == Lookup(c.users, uid)

GetGroupname(c, gid) == Lookup(c.groups, gid)

\* UserGroupCache.Start: the first user reads the two files, each table
\* being loaded when its file is readable; the error reports an unreadable
\* file.
CacheStart(c, readPasswd, readGroup) ==
    IF c.useCount = 0
    THEN [cache |-> [useCount |-> 1,
                     populated |-> TRUE,
                     users |-> IF readPasswd THEN Passwd ELSE EmptyTable,
                     groups |-> IF readGroup THEN Group ELSE EmptyTable,
                     populations |-> c.populations + 1],
          err |-> ~(readPasswd /\ readGroup)]
    ELSE [cache |-> [c EXCEPT !.useCount = @ + 1], err |-> FALSE]

\* Stop keeping the tables when the last user leaves.
CacheStop_KeepTables(c) == [c EXCEPT !.useCount = @ - 1]

\* UserGroupCache.Stop: the last user releases the tables.
CacheStop(c) ==
    IF c.useCount = 1
    THEN [c EXCEPT !.useCount = 0, !.populated = FALSE,
                   !.users = EmptyTable, !.groups = EmptyTable]
    ELSE [c EXCEPT !.useCount = @ - 1]

(***************************************************************************)
(* The UidGidResolver operator and its instances.                          *)
(***************************************************************************)
Prototypes == [hasUid : BOOLEAN, hasGid : BOOLEAN]

CanOperateOn(proto) == proto.hasUid \/ proto.hasGid

EventSpace ==
    [hasUid : BOOLEAN, hasGid : BOOLEAN, uid : {7, 1000}, gid : {7, 1000},
     userName : {<<>>}, groupName : {<<>>}]

NoInstance == [made |-> FALSE, proto |-> [hasUid |-> FALSE, hasGid |-> FALSE],
               pre |-> "none", posts |-> 0]

CacheInit ==
    /\ cache = [useCount |-> 0, populated |-> FALSE, users |-> EmptyTable,
                groups |-> EmptyTable, populations |-> 0]
    /\ inst = [i \in InstanceIds |-> NoInstance]
    /\ startAfterStop = FALSE
    /\ lastEnrich = [outcome |-> "none"]

\* Instantiate: the framework instantiates the operator for a gadget it
\* CanOperateOn; the instance holds the global cache.
Instantiate(i, proto) ==
    /\ ~inst[i].made
    /\ CanOperateOn(proto)
    /\ inst' = [inst EXCEPT ![i].made = TRUE, ![i].proto = proto]
    /\ UNCHANGED <<cache, startAfterStop, lastEnrich>>
    /\ UNCHANGED traceVars

PreGadgetRun(i, readPasswd, readGroup) ==
    /\ inst[i].made
    /\ inst[i].pre = "none"
    /\ inst[i].posts = 0
    /\ LET r == CacheStart(cache, readPasswd, readGroup)
       IN  /\ cache' = r.cache
           /\ inst' = [inst EXCEPT ![i].pre = IF r.err THEN "err" ELSE "ok"]
    /\ startAfterStop' = (startAfterStop \/ \E j \in InstanceIds : inst[j].posts > 0)
    /\ UNCHANGED lastEnrich
    /\ UNCHANGED traceVars

\* PostGadgetRun without the call of the cache's Stop.
PostGadgetRun_NoStop(i) ==
    /\ inst[i].made
    /\ inst[i].posts = 0
    /\ inst' = [inst EXCEPT ![i].posts = @ + 1]
    /\ UNCHANGED <<cache, startAfterStop, lastEnrich>>
    /\ UNCHANGED traceVars

PostGadgetRun(i) ==
    /\ inst[i].made
    /\ inst[i].posts = 0
    /\ cache' = CacheStop(cache)
    /\ inst' = [inst EXCEPT ![i].posts = @ + 1]
    /\ UNCHANGED <<startAfterStop, lastEnrich>>
    /\ UNCHANGED traceVars

\* enrich resolving the uid in the table of the groups.
Enrich_Swapped(c, ev) ==
    IF ~ev.hasUid THEN [outcome |-> "panic", ev |-> ev]
    ELSE LET e1 == [ev EXCEPT !.userName = GetGroupname(c, ev.uid)]
         IN  IF ~ev.hasGid THEN [outcome |-> "panic", ev |-> e1]
             ELSE [outcome |-> "ok",
                   ev |-> [e1 EXCEPT !.groupName = GetGroupname(c, ev.gid)]]

\* enrich: the two type assertions are the single-value form, which panics
\* when the event does not implement the interface.
Enrich(c, ev) ==
    IF ~ev.hasUid THEN [outcome |-> "panic", ev |-> ev]
    ELSE LET e1 == [ev EXCEPT !.userName = GetUsername(c, ev.uid)]
         IN  IF ~ev.hasGid THEN [outcome |-> "panic", ev |-> e1]
             ELSE [outcome |-> "ok",
                   ev |-> [e1 EXCEPT !.groupName = GetGroupname(c, ev.gid)]]

EnrichEvent(i, ev) ==
    /\ inst[i].made
    /\ LET r == Enrich(cache, ev)
       IN  lastEnrich' = [outcome |-> r.outcome, inst |-> i, before |-> ev, after |-> r.ev,
                          cache |-> cache]
    /\ UNCHANGED <<cache, inst, startAfterStop>>
    /\ UNCHANGED traceVars

\* The outcomes of the two calls Start makes: both succeed, the first fails,
\* the second fails.
StartEnv == { <<FALSE, FALSE>>, <<TRUE, FALSE>>, <<FALSE, TRUE>> }

\* Start reaches its two calls only on a Trace that is not started and with
\* parameters that parse; otherwise their outcomes are not drawn.
CallsMade(params) == ~started /\ ParseParams(params).err = NoError

vars == <<traceVars, cacheVars>>

Init == TraceInit /\ CacheInit

Next ==
    \/ \E params \in ParamSpace, env \in StartEnv :
          /\ started => params \in RestartParams
          /\ CallsMade(params) \/ env = <<FALSE, FALSE>>
          /\ Start(params, env[1], env[2])
    \/ StopCall
    \/ StopReturn
    \/ \E id \in TracerIds, table \in LiveTables : TimerFire(id, table)
    \/ \E id \in TracerIds : RunLoopExit(id)
    \/ \E id \in TracerIds, marshalErr \in BOOLEAN : EventCallback(id, marshalErr)

Spec == Init /\ [][Next]_vars

\* The files are read by the first user only; otherwise no outcome is drawn.
FilesRead == cache.useCount = 0

NextCache ==
    \/ \E i \in InstanceIds, proto \in Prototypes : Instantiate(i, proto)
    \/ \E i \in InstanceIds, readPasswd \in BOOLEAN, readGroup \in BOOLEAN :
          /\ FilesRead \/ (readPasswd /\ readGroup)
          /\ PreGadgetRun(i, readPasswd, readGroup)
    \/ \E i \in InstanceIds : PostGadgetRun(i)

SpecCache == Init /\ [][NextCache]_vars

\* One resolver instance through its run, enriching events.
NextEnrich ==
    \/ \E proto \in Prototypes : Instantiate(1, proto)
    \/ \E readPasswd \in BOOLEAN, readGroup \in BOOLEAN :
          /\ FilesRead \/ (readPasswd /\ readGroup)
          /\ PreGadgetRun(1, readPasswd, readGroup)
    \/ PostGadgetRun(1)
    \/ \E ev \in EventSpace : EnrichEvent(1, ev)

SpecEnrich == Init /\ [][NextEnrich]_vars

\* The maps the Trace of the snapshots is started with: those of ParamSpace
\* and a pid of 0.
TopKParams == ParamSpace \cup { MkParams(<<>>, <<>>, <<>>, << <<"0">> >>, <<>>) }

\* A Trace that is started once and whose tracer ticks over every live
\* table.
NextTopK ==
    \/ \E params \in TopKParams :
          /\ ~started
          /\ Start(params, FALSE, FALSE)
    \/ \E id \in TracerIds, table \in TableSpace : TimerFire(id, table)
    \/ \E id \in TracerIds, marshalErr \in BOOLEAN : EventCallback(id, marshalErr)

SpecTopK == Init /\ [][NextTopK]_vars

\* The Trace under Start, Stop and deleteTrace, its tracers not ticking.
NextDelete ==
    \/ \E params \in ParamSpace, env \in StartEnv :
          /\ started => params \in RestartParams
          /\ CallsMade(params) \/ env = <<FALSE, FALSE>>
          /\ Start(params, env[1], env[2])
    \/ StopCall
    \/ StopReturn
    \/ /\ tracer /= 0 => tracers[tracer].stops < MaxStops
       /\ DeleteTraceCall
    \/ DeleteTraceReturn
    \/ \E id \in TracerIds : RunLoopExit(id)

SpecDelete == Init /\ [][NextDelete]_vars

\* The maps concurrent Starts are called with: no parameter, a valid one,
\* invalid ones.
ConcurrentParams ==
    RestartParams \cup { MkParams(<< <<"2">> >>, <<>>, <<>>, <<>>, <<>>) }

\* Start calls on one Trace running concurrently.
NextConcurrent ==
    \/ \E c \in Callers, params \in ConcurrentParams : StartCheck(c, params)
    \/ \E c \in Callers, env \in StartEnv :
          /\ ParseParams(starts[c].params).err = NoError \/ env = <<FALSE, FALSE>>
          /\ StartCreate(c, env[1], env[2])
    \/ \E c \in Callers : StartAssign(c)

SpecConcurrent == Init /\ [][NextConcurrent]_vars


(***************************************************************************)
(* Properties of Trace.Start's validation.                                 *)
(***************************************************************************)
\* The last operation was a Start on a Trace that was not started.
FreshStart == lastOp.op = "Start" /\ ~lastOp.wasStarted

\* The tokens of a sort-by value that name no sortable column.
InvalidColumns(params) ==
    IF SortByParam \in DOMAIN params
    THEN SelectTokens(Split(params[SortByParam], ","), FALSE)
    ELSE <<>>

\* Optional sign, then at least one digit.
IsIntegerText(s) ==
    LET body == IF s /= <<>> /\ Head(s) \in {"-", "+"} THEN Tail(s) ELSE s
    IN  body /= <<>> /\ \A i \in 1..Len(body) : IsDigit(body[i])

NotInteger(params, k) == k \in DOMAIN params /\ ~IsIntegerText(params[k])

\* The Trace is as a rejected Start leaves it: not started, no tracer
\* referenced, created or running, state not Started.
Rejected ==
    /\ ~started
    /\ tracer = 0
    /\ Cardinality(Created) = lastOp.tracersBefore
    /\ \A id \in TracerIds : tracers[id].state /= "running"
    /\ status.State /= TraceStateStarted
    /\ status.State = lastOp.stateBefore

\* C1, as claimed: a Start whose sort-by has a token outside the sortable
\* columns is rejected with an operation error naming the invalid columns; no
\* tracer is created, the Trace stays not started, the state is not Started.
C1_AsClaimed ==
    (FreshStart /\ InvalidColumns(lastOp.params) /= <<>>) =>
        /\ status.OperationError = AreNotValidFor(InvalidColumns(lastOp.params), SortByParam)
        /\ Rejected

\* C1, amended: such a Start is rejected, no tracer is created, the Trace
\* stays not started and the state is not Started; the operation error names
\* the invalid columns when max_rows and interval are integers or absent, and
\* otherwise names the first of these two that is not an integer.
C1_InvalidSortByRejected ==
    (FreshStart /\ InvalidColumns(lastOp.params) /= <<>>) =>
        /\ status.OperationError =
              IF NotInteger(lastOp.params, MaxRowsParam)
              THEN NotValidFor(lastOp.params[MaxRowsParam], MaxRowsParam)
              ELSE IF NotInteger(lastOp.params, IntervalParam)
              THEN NotValidFor(lastOp.params[IntervalParam], IntervalParam)
              ELSE AreNotValidFor(InvalidColumns(lastOp.params), SortByParam)
        /\ Rejected

\* A Start whose only parameter is a sort-by with two invalid tokens has been
\* rejected with the error naming the two.
C1_Witness ==
    /\ FreshStart
    /\ DOMAIN lastOp.params = {SortByParam}
    /\ InvalidColumns(lastOp.params) = << <<"bogus">>, <<"-", "nope">> >>
    /\ status.OperationError =
          <<"\"", "bogus", ",", "-", "nope", "\"", " are not valid for ", "\"", "sort_by", "\"">>
    /\ ~started

\* The parameters with an invalid value: max_rows, interval or pid that is
\* not integer text, a family other than 4 or 6.
InvalidParams(params) ==
    { k \in {MaxRowsParam, IntervalParam, PidParam} : NotInteger(params, k) }
    \cup { k \in {FamilyParam} :
             k \in DOMAIN params /\ params[k] \notin { <<"4">>, <<"6">> } }

\* C2: a Start with an invalid max_rows, interval, pid or family sets an
\* operation error that names a parameter of the call and its value, and the
\* pipeline does not run: no tracer is created or running, started stays
\* false, no tick is in progress.
C2_InvalidValueRejected ==
    (FreshStart /\ InvalidParams(lastOp.params) /= {}) =>
        /\ \/ \E k \in DOMAIN lastOp.params \ {SortByParam} :
                 status.OperationError = NotValidFor(lastOp.params[k], k)
           \/ /\ InvalidColumns(lastOp.params) /= <<>>
              /\ status.OperationError =
                    AreNotValidFor(InvalidColumns(lastOp.params), SortByParam)
        /\ Rejected
        /\ \A id \in TracerIds : tracers[id].pc = "idle"

\* A Start with family 5 as its only parameter has been rejected.
C2_Witness ==
    /\ FreshStart
    /\ DOMAIN lastOp.params = {FamilyParam}
    /\ lastOp.params[FamilyParam] = <<"5">>
    /\ status.OperationError = <<"\"", "5", "\"", " is not valid for ", "\"", "family", "\"">>
    /\ ~started

\* C3, as claimed: max_rows is validated to be positive, so no tracer runs
\* with a MaxRows that is zero or negative.
C3_AsClaimed == started => config.MaxRows > 0

(***************************************************************************)
(* Properties of Trace.Stop and of the callback.                           *)
(***************************************************************************)
\* The last operation was a Stop on a Trace that was not started.
StopOfStopped == lastOp.op = "Stop" /\ ~lastOp.wasStarted

\* C4, as claimed: a Stop of a Trace that is not started reports no error and
\* leaves the outcome of a single Stop.
C4_AsClaimed == StopOfStopped => status.OperationError /= <<"Not started">>

\* C4, amended: a Stop of a Trace that is not started leaves the Trace as it
\* was (not started, no tracer, every tracer created stopped exactly once, the
\* state unchanged), and it reports the operation error "Not started".
C4_StopOfStopped ==
    StopOfStopped =>
        /\ ~started
        /\ tracer = 0
        /\ opPc = "none"
        /\ \A id \in Created : tracers[id].state = "stopped" /\ tracers[id].stops = 1
        /\ status.State = lastOp.stateBefore
        /\ status.OperationError = <<"Not started">>

\* A second Stop after a Start and a Stop.
C4_Witness ==
    /\ StopOfStopped
    /\ status.State = TraceStateStopped
    /\ tracers[1].stops = 1
    /\ status.OperationError = <<"Not started">>

\* The tracers whose Stop the Trace has called and seen return.
StoppedByTrace == { id \in Created : id /= tracer }

\* C5: once Trace.Stop has returned, the tracer it stopped takes no tick and
\* its callback publishes nothing more.
C5_NoTickAfterStop ==
    [][\A id \in StoppedByTrace :
          /\ tracers'[id].ticks = tracers[id].ticks
          /\ tracers'[id].published = tracers[id].published
          /\ tracers'[id].logged = tracers[id].logged
          /\ tracers'[id].pc = "idle"]_vars

\* Stop was called while a tick was in the callback, the tick published, and
\* Stop has returned.
C5_Witness ==
    /\ lastOp.op = "Stop"
    /\ lastOp.wasStarted
    /\ lastOp.inFlight
    /\ opPc = "none"
    /\ ~started
    /\ tracers[1].state = "stopped"
    /\ tracers[1].published = 1

\* C6: every tick that has left the callback was either published once or,
\* its Marshal having failed, logged and not published; a publish hands over
\* the Marshal of that tick's event; after either the loop is idle again.
C6_PublishOncePerTick ==
    /\ [](\A id \in TracerIds :
            tracers[id].published + tracers[id].logged
               + (IF tracers[id].pc = "callback" THEN 1 ELSE 0) = tracers[id].ticks)
    /\ [][\A id \in TracerIds :
            /\ tracers'[id].published /= tracers[id].published =>
                  /\ tracers'[id].published = tracers[id].published + 1
                  /\ tracers'[id].logged = tracers[id].logged
                  /\ tracers[id].pc = "callback"
                  /\ tracers'[id].pc = "idle"
                  /\ lastPublished' = <<TraceName, Marshal(tracers[id].ev)>>
            /\ tracers'[id].logged /= tracers[id].logged =>
                  /\ tracers'[id].logged = tracers[id].logged + 1
                  /\ tracers'[id].published = tracers[id].published
                  /\ tracers'[id].pc = "idle"
                  /\ lastPublished' = lastPublished]_vars

\* A tick whose Marshal failed was followed by a tick that was published.
C6_Witness ==
    /\ tracers[1].logged = 1
    /\ tracers[1].published = 1
    /\ tracers[1].lastTick = "published"
    /\ tracers[1].pc = "idle"
    /\ lastPublished = <<TraceName, <<"json", [Stats |-> OneRow]>> >>

(***************************************************************************)
(* Properties of the shared cache and of the resolver.                     *)
(***************************************************************************)
Participants == { i \in InstanceIds : inst[i].made }

\* Every instance made has run PreGadgetRun and then PostGadgetRun, and all
\* the PreGadgetRun calls came before the first PostGadgetRun.
StartsThenStops ==
    /\ Participants /= {}
    /\ \A i \in Participants : inst[i].pre /= "none" /\ inst[i].posts = 1
    /\ ~startAfterStop

\* C7: after N PreGadgetRun calls followed by N PostGadgetRun calls, in any
\* order among themselves, the cache has use count 0, its tables are
\* released, and they were populated exactly once.
C7_StartsThenStops ==
    StartsThenStops =>
        /\ cache.useCount = 0
        /\ ~cache.populated
        /\ cache.users = EmptyTable
        /\ cache.groups = EmptyTable
        /\ cache.populations = 1

\* Two instances have started and then stopped.
C7_Witness ==
    /\ StartsThenStops
    /\ {1, 2} \subseteq Participants
    /\ cache.populations = 1
    /\ cache.useCount = 0

\* C8: the tables are populated exactly when the use count is positive, and
\* hold nothing when they are not populated.
C8_PopulatedIffUsed ==
    /\ cache.populated <=> cache.useCount > 0
    /\ ~cache.populated => (cache.users = EmptyTable /\ cache.groups = EmptyTable)

\* The first Start could not read a file, and a second instance has started.
C8_Witness ==
    /\ inst[1].pre = "err"
    /\ inst[2].pre = "ok"
    /\ cache.useCount = 2
    /\ cache.populated
    /\ cache.users = EmptyTable
    /\ cache.groups = Group

\* C9, as claimed: EnrichEvent on an event with the uid capability, the gid
\* capability or both returns normally, sets the name of each capability the
\* event has to the cache's resolution of its id, and leaves the other name.
C9_AsClaimed ==
    (lastEnrich.outcome /= "none"
       /\ (lastEnrich.before.hasUid \/ lastEnrich.before.hasGid)) =>
        /\ lastEnrich.outcome = "ok"
        /\ lastEnrich.after.userName =
              IF lastEnrich.before.hasUid
              THEN Lookup(lastEnrich.cache.users, lastEnrich.before.uid)
              ELSE lastEnrich.before.userName
        /\ lastEnrich.after.groupName =
              IF lastEnrich.before.hasGid
              THEN Lookup(lastEnrich.cache.groups, lastEnrich.before.gid)
              ELSE lastEnrich.before.groupName

\* C10, as claimed: EnrichEvent on an event with neither capability returns
\* normally and leaves the event as it was.
C10_AsClaimed ==
    (lastEnrich.outcome /= "none"
       /\ ~lastEnrich.before.hasUid /\ ~lastEnrich.before.hasGid) =>
        /\ lastEnrich.outcome = "ok"
        /\ lastEnrich.after = lastEnrich.before

(***************************************************************************)
(* Properties of the resolution.                                           *)
(***************************************************************************)
\* name is the decimal string of id: digits only, no leading zero, and of
\* the value id.
IsDecimalOf(name, id) ==
    /\ name /= <<>>
    /\ \A k \in 1..Len(name) : IsDigit(name[k])
    /\ Len(name) > 1 => name[1] /= "0"
    /\ ParseDigits(name, 0, MaxInt32) = id

\* name is what the claim says id resolves to in table.
IsResolution(table, id, name) ==
    IF id \in DOMAIN table THEN name = table[id] ELSE IsDecimalOf(name, id)

\* C11: EnrichEvent returns no error, and every name it writes to an event
\* is the name its id is mapped to in the loaded table when the id is
\* present there, and the decimal string of the id otherwise.
C11_ResolutionNeverFails ==
    lastEnrich.outcome /= "none" =>
        /\ lastEnrich.outcome /= "error"
        /\ lastEnrich.before.hasUid =>
              IsResolution(lastEnrich.cache.users, lastEnrich.before.uid,
                           lastEnrich.after.userName)
        /\ (lastEnrich.before.hasUid /\ lastEnrich.before.hasGid) =>
              IsResolution(lastEnrich.cache.groups, lastEnrich.before.gid,
                           lastEnrich.after.groupName)

\* An event with a uid the loaded passwd table does not map and a gid the
\* loaded group table does not map has been enriched.
C11_Witness ==
    /\ lastEnrich.outcome = "ok"
    /\ lastEnrich.cache.users = Passwd
    /\ lastEnrich.cache.groups = Group
    /\ lastEnrich.before.uid = 7
    /\ lastEnrich.before.gid = 1000
    /\ lastEnrich.after.userName = <<"7">>
    /\ lastEnrich.after.groupName = <<"1", "0", "0", "0">>

\* The cache was activated with exactly one of the two files unreadable.
OneFileUnreadable ==
    /\ cache.populated
    /\ \/ cache.users = EmptyTable /\ cache.groups = Group
       \/ cache.users = Passwd /\ cache.groups = EmptyTable

\* C12, as claimed: when one of the two files is unreadable at the cache's
\* activation, the other table is loaded, the ids of the unreadable kind
\* resolve to their decimal strings and those of the readable kind to their
\* names, and no PreGadgetRun has returned an error, so that the gadget run
\* proceeds.
C12_AsClaimed ==
    OneFileUnreadable =>
        /\ \A id \in Ids :
              /\ IsResolution(IF cache.users = EmptyTable THEN EmptyTable ELSE Passwd,
                              id, GetUsername(cache, id))
              /\ IsResolution(IF cache.groups = EmptyTable THEN EmptyTable ELSE Group,
                              id, GetGroupname(cache, id))
        /\ \A i \in InstanceIds : inst[i].pre /= "err"

(***************************************************************************)
(* Properties of the snapshots.                                            *)
(***************************************************************************)
\* Tracer id is in a tick: it has taken a snapshot and is in the callback.
InTick(id) == tracers[id].pc = "callback"

Occurrences(r, rows) == Cardinality({ k \in 1..Len(rows) : rows[k] = r })

Range(rows) == { rows[k] : k \in 1..Len(rows) }

\* snap is ordered by the sort specification.
IsOrdered(snap, sortBy) ==
    \A i, j \in 1..Len(snap) : i < j => ~Less(snap[j], snap[i], sortBy)

\* snap consists of rows of rows, and no row left out goes before one of
\* snap.
IsTopOf(snap, rows, sortBy) ==
    /\ \A r \in Range(snap) : Occurrences(r, snap) <= Occurrences(r, rows)
    /\ \A r \in Range(rows) :
          Occurrences(r, snap) < Occurrences(r, rows) =>
              \A k \in 1..Len(snap) : ~Less(r, snap[k], sortBy)

\* The snapshot of the tick tracer id is in is as claimed.
SnapshotAsClaimed(id) ==
    LET cfg == tracers[id].config
        snap == tracers[id].ev.Stats
        filtered == FilterStats(tracers[id].table, cfg)
    IN  /\ Len(snap) <= cfg.MaxRows
        /\ IsOrdered(snap, cfg.SortBy)
        /\ IsTopOf(snap, filtered, cfg.SortBy)
        /\ Len(snap) = IF Len(filtered) < cfg.MaxRows THEN Len(filtered) ELSE cfg.MaxRows
        /\ (tracers[id].table = FourRows /\ cfg.MaxRows = 2 /\ cfg.TargetPid = 0
               /\ cfg.TargetFamily = 0 - 1 /\ SortDescending(Head(cfg.SortBy))
               /\ SortColumn(Head(cfg.SortBy)) = "sent") =>
              (Len(snap) = 2 /\ snap[1].sent = 9 /\ snap[2].sent = 5)
        /\ tracers[id].table = <<>> => snap = <<>>

\* C13, as claimed: the snapshot of every tick has at most the configured
\* maxRows rows, is ordered by the configured sort specification and is the
\* top maxRows rows of the filtered live table; the rows with sent 5, 3, 9, 1
\* under maxRows 2 and a descending sort give 9, 5; an empty live table gives
\* an empty snapshot.
C13_AsClaimed == \A id \in TracerIds : InTick(id) => SnapshotAsClaimed(id)

\* The target pid the Start that created the tracer was given, 0 when it
\* was given none.
ConfiguredPid ==
    IF PidParam \in DOMAIN lastOp.params
    THEN ParseInt(lastOp.params[PidParam], MaxInt32).val
    ELSE 0

\* The rows of a table that pass the filter on the family alone.
RECURSIVE FamilyRows(_, _)
FamilyRows(rows, family) ==
    IF rows = <<>> THEN <<>>
    ELSE (IF family = 0 - 1 \/ Head(rows).family = family THEN <<Head(rows)>> ELSE <<>>)
         \o FamilyRows(Tail(rows), family)

\* C14: in a tick of the tracer the last Start created, when that Start was
\* given a non-zero target pid P every row of the snapshot has pid P, and
\* when it was given 0 or no target pid the snapshot has as many rows as the
\* filter on the family and maxRows leave, none being excluded on its pid.
C14_TargetPidFilter ==
    (FreshStart /\ started /\ InTick(tracer)) =>
        LET cfg == tracers[tracer].config
            snap == tracers[tracer].ev.Stats
            fam == FamilyRows(tracers[tracer].table, cfg.TargetFamily)
        IN  /\ ConfiguredPid /= 0 => \A k \in 1..Len(snap) : snap[k].pid = ConfiguredPid
            /\ ConfiguredPid = 0 =>
                  /\ Len(snap) = IF cfg.MaxRows <= 0 THEN 0
                                 ELSE IF Len(fam) < cfg.MaxRows THEN Len(fam)
                                 ELSE cfg.MaxRows
                  /\ \A r \in Range(snap) : Occurrences(r, snap) <= Occurrences(r, fam)

\* A tracer started with target pid 42 and no other parameter is in a tick
\* over the rows of pid 42 and pid 7, with the row of pid 42 as snapshot.
C14_Witness ==
    /\ FreshStart
    /\ started
    /\ InTick(tracer)
    /\ lastOp.params = MkParams(<<>>, <<>>, <<>>, << <<"4", "2">> >>, <<>>)
    /\ tracers[tracer].table = TwoPids
    /\ tracers[tracer].ev.Stats = << Row(42, AF_INET6, 9, 1) >>

(***************************************************************************)
(* Properties of the Trace's lifecycle.                                    *)
(***************************************************************************)
\* The errors Start reports when one of its two calls fails.
CallFailures ==
    { <<"failed to find tracer's mount ns map: ", "err">>,
      <<"failed to create tracer: ", "err">> }

\* The parameters are valid: integer texts, the pid within 32 bits, a family
\* of 4 or 6, sortable columns.
ValidParams(params) ==
    /\ InvalidParams(params) = {}
    /\ InvalidColumns(params) = <<>>
    /\ PidParam \in DOMAIN params => ParseInt(params[PidParam], MaxInt32).ok

\* The last operation was a Start with valid parameters on a Trace that a
\* Start and a Stop had left stopped.
StartAfterCycle ==
    /\ FreshStart
    /\ lastOp.tracersBefore >= 1
    /\ lastOp.stateBefore = TraceStateStopped
    /\ ValidParams(lastOp.params)

\* Such a Start has created a fresh tracer, which runs and is the one the
\* Trace references, and the state is Started, unless one of the two calls
\* of Start failed, which is then the error reported.
C15_CycleAgain ==
    StartAfterCycle =>
        \/ /\ started
           /\ tracer = lastOp.tracersBefore + 1
           /\ Cardinality(Created) = lastOp.tracersBefore + 1
           /\ tracers[tracer].state = "running"
           /\ tracers[tracer].stops = 0
           /\ \A id \in 1..lastOp.tracersBefore : tracers[id].state = "stopped"
           /\ status.State = TraceStateStarted
        \/ /\ ~started
           /\ status.OperationError \in CallFailures
           /\ Cardinality(Created) = lastOp.tracersBefore

\* A step from a started Trace after which the last operation is a Start on
\* the started Trace: it reports Started, writes no error, and leaves the
\* Trace with the tracer it had and no other tracer created.
C15_RestartStep ==
    (started /\ opPc = "none" /\ lastOp'.op = "Start" /\ lastOp'.wasStarted) =>
        /\ status'.State = TraceStateStarted
        /\ status'.OperationError = status.OperationError
        /\ started'
        /\ tracer' = tracer
        /\ config' = config
        /\ Created' = Created

\* C15: a Start with valid parameters after a Start and a Stop creates a
\* fresh tracer and reports Started (unless a call of Start fails), and a
\* Start on a started Trace reports Started without validating its
\* parameters and without creating a tracer.
C15_RepeatableCycle == [][C15_CycleAgain' /\ C15_RestartStep]_vars

\* In its second cycle the Trace runs its second tracer, and the last
\* operation was a Start on the started Trace with invalid parameters, which
\* left no error.
C15_Witness ==
    /\ lastOp.op = "Start"
    /\ lastOp.wasStarted
    /\ ~ValidParams(lastOp.params)
    /\ started
    /\ tracer = 2
    /\ tracers[1].state = "stopped"
    /\ tracers[2].state = "running"
    /\ status.State = TraceStateStarted
    /\ status.OperationError = NoError

\* The tracers that are created and not yet stopped.
Live == { id \in TracerIds : tracers[id].state = "running" }

\* C16: started is true exactly when the Trace references a tracer, and at
\* most one tracer is live, the referenced one.
C16_StartedIffTracer ==
    /\ started <=> tracer /= 0
    /\ Cardinality(Live) <= 1
    /\ Live \subseteq {tracer}

\* After a Start and a Stop, a Start has failed in one of its calls.
C16_Witness ==
    /\ FreshStart
    /\ lastOp.tracersBefore = 1
    /\ status.OperationError \in CallFailures
    /\ ~started
    /\ tracer = 0
    /\ tracers[1].state = "stopped"
    /\ Live = {}

\* C17, as claimed: the Stop of every tracer is invoked at most once, and
\* once a Stop or a deleteTrace of the Trace has returned, the Stop of every
\* tracer the Trace created has been invoked exactly once.
C17_AsClaimed ==
    /\ \A id \in TracerIds : tracers[id].stops <= 1
    /\ (opPc = "none" /\ lastOp.op \in {"Stop", "deleteTrace"}) =>
          \A id \in Created : tracers[id].stops = 1

\* C18, as claimed: Start calls that run concurrently create at most one
\* tracer, and once they have returned no tracer runs but the one the Trace
\* references.
C18_AsClaimed ==
    /\ Cardinality(Created) <= 1
    /\ (\A c \in Callers : starts[c].pc \in {"idle", "done"}) => Live \subseteq {tracer}

\* C19, as claimed: the use count of the cache is never negative, and the
\* tables are populated as long as an instance whose PreGadgetRun succeeded
\* has not run its PostGadgetRun.
C19_AsClaimed ==
    /\ cache.useCount >= 0
    /\ (\E i \in InstanceIds : inst[i].pre = "ok" /\ inst[i].posts = 0) => cache.populated

=============================================================================
